---------------------------- MODULE Spec2Model ----------------------------
(***************************************************************************)
(* A model of rust-deej: the analog scaling and sampling library           *)
(* (src/src/lib.rs), the DisplayState type (src/src/lib.rs) and the RTIC   *)
(* application (src/src/main.rs).                                          *)
(*                                                                         *)
(* Rust's u16 and u32 arithmetic is modelled at its width.  A u32 is a     *)
(* pair <<hi, lo>> of 16-bit limbs, so that no intermediate value leaves   *)
(* the range of the model checker's integers.  An arithmetic overflow      *)
(* panics when the build has overflow checks (the dev profile) and wraps   *)
(* when it has not (the release profile): overflow_checks is the build.    *)
(***************************************************************************)
EXTENDS Integers, Sequences, FiniteSets, TLC

VARIABLES
    overflow_checks,    \* the build: TRUE panics on overflow, FALSE wraps
    \* ---- scale_to_range called on its own
    sc_pc,              \* "call" before the call, "ret" after it
    sc_args,            \* [value, old_min, old_max, new_min, new_max]
    sc_ret,             \* the returned value, or a panic
    \* ---- ReadAnalog::read and ReadAnalog::read_multi_sample
    adc_range,          \* the conversion results the pin can give in this call
    sm_fn,              \* the function called: "read" or "read_multi_sample"
    sample_size,        \* read_multi_sample's sample_size
    sm_pc,              \* "call", "loop" (in the for loop), "ret"
    sm_i,               \* iterations of the for loop done
    sum,                \* the u32 accumulator
    sm_raw,             \* the last conversion result
    sm_eff,             \* the per-read values (after the cutoff) seen in this call
    sm_ret,             \* the returned value, or a panic
    \* ---- DisplayState and its display device
    volumes,            \* DisplayState.volumes
    ready_to_draw,      \* DisplayState.ready_to_draw
    title,              \* DisplayState.title: <<>> is None, <<t>> is Some(t)
    display_on,         \* the device's display-on flag
    buffer,             \* the frame buffer of the buffered graphics mode
    device_frame,       \* the frame last flushed to the device
    ds_op,              \* the last DisplayState function called
    ds_arg,             \* the argument of the last set_volumes
    ds_ret,             \* what the last call returned
    ready_called,       \* whether ready() has been called
    ds_repeat,          \* whether the last call was set_volumes with the
                        \* argument of the set_volumes just before it
    \* ---- the RTIC application of main.rs
    raw_input_values,   \* Shared.raw_input_values
    idle_pc,            \* idle: "read", "lock", "write" (in the lock), "delay"
    idle_idx,           \* idle: the channel of the for loop
    new_val,            \* idle: new_val
    running,            \* the context on the core: "idle" or a task
    task_pc,            \* the running task's next statement
    percentages,        \* update_display: percentages
    values,             \* send_to_serial: values
    serial_out,         \* the line println! wrote in this run of send_to_serial
    timer0_armed,       \* timer0 counts towards its alarm
    timer0_int,         \* timer0's interrupt is pending (TG0_T0_LEVEL)
    timer1_armed,       \* timer1 counts towards its alarm
    timer1_int          \* timer1's interrupt is pending (TG1_T0_LEVEL)

buildVars == <<overflow_checks>>
scaleVars == <<sc_pc, sc_args, sc_ret>>
sampleVars == <<adc_range, sm_fn, sample_size, sm_pc, sm_i, sum, sm_raw, sm_eff,
                sm_ret>>
displayVars == <<volumes, ready_to_draw, title, display_on, buffer,
                 device_frame, ds_op, ds_arg, ds_ret, ready_called, ds_repeat>>
appVars == <<raw_input_values, idle_pc, idle_idx, new_val, running, task_pc,
             percentages, values, serial_out, timer0_armed, timer0_int,
             timer1_armed, timer1_int>>
vars == <<buildVars, scaleVars, sampleVars, displayVars, appVars>>

\* what scale_to_range on its own leaves alone
notScale == <<sampleVars, displayVars, appVars>>
\* what the ReadAnalog functions on their own leave alone
notSample == <<scaleVars, displayVars, appVars>>
\* what the DisplayState functions on their own leave alone
notDisplay == <<overflow_checks, scaleVars, sampleVars, appVars>>
\* what the application leaves alone: it draws on the display itself and
\* uses no DisplayState
notApp == <<overflow_checks, scaleVars, sampleVars, volumes, ready_to_draw,
            title, display_on, ds_op, ds_arg, ds_ret, ready_called, ds_repeat>>

----------------------------------------------------------------------------
(* Program constants. *)

MAX_ANALOG_VALUE == 770
ZERO_CUTOFF == 35
INPUT_COUNT == 4
\* the sample_size idle passes to read_multi_sample
SAMPLE_SIZE == 100
U16_MAX == 65535

(* Bounds of the model. *)

\* the small values every u16 input set holds: 0..MaxSmall
MaxSmall == 3

\* read_multi_sample is called with sample_size in 0..MaxSamples
MaxSamples == 3

\* the sample_size of the long run of read_multi_sample on a steady input
LongRun == 65538

\* set_volumes is given volumes in 0..MaxVol
MaxVol == 2

----------------------------------------------------------------------------
(* Results: a returned value, or a panic (the device halts). *)

Ret(v) == [ok |-> TRUE, val |-> v]
Panic == [ok |-> FALSE, val |-> 0]

----------------------------------------------------------------------------
(* Machine arithmetic.  Every operation gives [ovf, val]: val is the       *)
(* wrapped result, ovf says whether the exact result left the type.        *)

W16 == U16_MAX + 1

\* value as u32
AsU32(x) == <<0, x>>

\* (x as u16) of a u32: the low 16 bits
AsU16(a) == a[2]

\* u16 - u16
SubU16(x, y) ==
    IF x >= y THEN [ovf |-> FALSE, val |-> x - y]
              ELSE [ovf |-> TRUE, val |-> x - y + W16]

\* u32 - u32
SubU32(a, b) ==
    LET lo == a[2] - b[2]
        borrow == IF lo < 0 THEN 1 ELSE 0
        hi == a[1] - b[1] - borrow
    IN  [ovf |-> hi < 0,
         val |-> <<(hi + W16) % W16, (lo + W16) % W16>>]

\* u32 + u32
AddU32(a, b) ==
    LET lo == a[2] + b[2]
        hi == a[1] + b[1] + (lo \div W16)
    IN  [ovf |-> hi >= W16, val |-> <<hi % W16, lo % W16>>]

\* the exact 32-bit product of two 16-bit limbs, as <<hi, lo>>
Mul16(x, y) ==
    LET xh == x \div 256
        xl == x % 256
        A == xh * y
        t == (A % 256) * 256 + xl * y
    IN  <<(A \div 256) + (t \div W16), t % W16>>

\* u32 * u32
MulU32(a, b) ==
    LET P0 == Mul16(a[2], b[2])
        P1 == Mul16(a[1], b[2])
        P2 == Mul16(a[2], b[1])
        hisum == P0[1] + P1[2] + P2[2]
    IN  [ovf |-> \/ (a[1] > 0 /\ b[1] > 0)
                 \/ P1[1] > 0
                 \/ P2[1] > 0
                 \/ hisum >= W16,
         val |-> <<hisum % W16, P0[2]>>]

\* a < b for limb pairs
LessU32(a, b) == a[1] < b[1] \/ (a[1] = b[1] /\ a[2] < b[2])

\* the largest integer the checker's arithmetic holds, 2^31 - 1
I31Max == 32767 * W16 + U16_MAX

\* the integer a limb pair below 2^31 stands for
ToInt(a) == a[1] * W16 + a[2]

FromInt(n) == <<n \div W16, n % W16>>

\* a / d for a divisor below 2^16: long division, a byte of a at a time
DivSmall(a, d) ==
    LET q3 == (a[1] \div 256) \div d
        r3 == (a[1] \div 256) % d
        n2 == r3 * 256 + (a[1] % 256)
        q2 == n2 \div d
        r2 == n2 % d
        n1 == r2 * 256 + (a[2] \div 256)
        q1 == n1 \div d
        r1 == n1 % d
        n0 == r1 * 256 + (a[2] % 256)
        q0 == n0 \div d
    IN  <<q3 * 256 + q2, q1 * 256 + q0>>

\* a / b for 2^16 <= b < 2^31 and a >= 2^31: a = 2^31 + rest, divided in
\* two parts so that every intermediate value stays below 2^31
DivLarge(a, b) ==
    LET d == ToInt(b)
        qb == IF (I31Max % d) = d - 1 THEN (I31Max \div d) + 1 ELSE I31Max \div d
        rb == IF (I31Max % d) = d - 1 THEN 0 ELSE (I31Max % d) + 1
        rest == ToInt(<<a[1] - 32768, a[2]>>)
        q1 == rest \div d
        r1 == rest % d
        extra == IF rb >= d - r1 THEN 1 ELSE 0
    IN  FromInt(qb + q1 + extra)

\* u32 / u32: zero is a division by zero, which panics in every build
DivU32(a, b) ==
    IF b = <<0, 0>> THEN [zero |-> TRUE, val |-> <<0, 0>>]
    ELSE [zero |-> FALSE,
          val |-> IF b[1] = 0 THEN DivSmall(a, b[2])
                  ELSE IF b[1] >= 32768
                       THEN (IF LessU32(a, b) THEN <<0, 0>> ELSE <<0, 1>>)
                  ELSE IF a[1] < 32768 THEN FromInt(ToInt(a) \div ToInt(b))
                  ELSE DivLarge(a, b)]

Min(x, y) == IF x <= y THEN x ELSE y

----------------------------------------------------------------------------
(* lib.rs: scale_to_range *)

\* scale_to_range with the offset new_min left out of the result
scale_to_range_no_offset(checks, value, old_min, old_max, new_min, new_max) ==
    LET old_range == SubU16(old_max, old_min)
        new_range == SubU16(new_max, new_min)
        clamped == Min(value, old_max)
        diff == SubU32(AsU32(clamped), AsU32(old_min))
        prod == MulU32(diff.val, AsU32(new_range.val))
        quot == DivU32(prod.val, AsU32(old_range.val))
        overflowed == old_range.ovf \/ new_range.ovf \/ diff.ovf \/ prod.ovf
    IN  IF quot.zero \/ (checks /\ overflowed)
        THEN Panic
        ELSE Ret(AsU16(quot.val))

\* scale_to_range without the clamp of value to old_max
scale_to_range_no_clamp(checks, value, old_min, old_max, new_min, new_max) ==
    LET old_range == SubU16(old_max, old_min)
        new_range == SubU16(new_max, new_min)
        diff == SubU32(AsU32(value), AsU32(old_min))
        prod == MulU32(diff.val, AsU32(new_range.val))
        quot == DivU32(prod.val, AsU32(old_range.val))
        total == AddU32(quot.val, AsU32(new_min))
        overflowed == old_range.ovf \/ new_range.ovf \/ diff.ovf \/ prod.ovf
                      \/ total.ovf
    IN  IF quot.zero \/ (checks /\ overflowed)
        THEN Panic
        ELSE Ret(AsU16(total.val))

scale_to_range(checks, value, old_min, old_max, new_min, new_max) ==
    LET old_range == SubU16(old_max, old_min)
        new_range == SubU16(new_max, new_min)
        clamped == Min(value, old_max)
        diff == SubU32(AsU32(clamped), AsU32(old_min))
        prod == MulU32(diff.val, AsU32(new_range.val))
        quot == DivU32(prod.val, AsU32(old_range.val))
        total == AddU32(quot.val, AsU32(new_min))
        overflowed == old_range.ovf \/ new_range.ovf \/ diff.ovf \/ prod.ovf
                      \/ total.ovf
    IN  IF quot.zero \/ (checks /\ overflowed)
        THEN Panic
        ELSE Ret(AsU16(total.val))

\* scale_analog_input_to_1023 with the upper end of the new range one higher
scale_analog_input_to_1024(checks, value) ==
    scale_to_range(checks, value, 0, MAX_ANALOG_VALUE, 0, 1024)

scale_analog_input_to_1023(checks, value) ==
    scale_to_range(checks, value, 0, MAX_ANALOG_VALUE, 0, 1023)

scale_analog_input_to_100(checks, value) ==
    scale_to_range(checks, value, 0, MAX_ANALOG_VALUE, 0, 100)

----------------------------------------------------------------------------
(* scale_to_range called on its own, on inputs drawn from ScaleVals. *)

ScaleVals == (0 .. MaxSmall) \cup {100, MAX_ANALOG_VALUE, 1023, U16_MAX}

ScaleArgs == [value : ScaleVals, old_min : ScaleVals, old_max : ScaleVals,
              new_min : ScaleVals, new_max : ScaleVals]

ScaleOff ==
    /\ sc_pc = "off"
    /\ sc_args = [value |-> 0, old_min |-> 0, old_max |-> 0, new_min |-> 0,
                  new_max |-> 0]
    /\ sc_ret = Panic

ScaleInit ==
    /\ sc_pc = "call"
    /\ sc_args \in ScaleArgs
    /\ sc_ret = Panic

ScaleCall ==
    /\ sc_pc = "call"
    /\ sc_pc' = "ret"
    /\ sc_ret' = scale_to_range(overflow_checks, sc_args.value, sc_args.old_min,
                                sc_args.old_max, sc_args.new_min, sc_args.new_max)
    /\ UNCHANGED <<overflow_checks, sc_args, notScale>>

----------------------------------------------------------------------------
(* lib.rs: ReadAnalog for AdcPin.  A conversion gives a u16 or fails; the  *)
(* failure panics in expect().                                             *)

AdcVals == (0 .. MaxSmall) \cup {ZERO_CUTOFF - 1, ZERO_CUTOFF, MAX_ANALOG_VALUE,
                                 U16_MAX}

AdcFault == Panic

\* every result of nb::block!(adc.read(self))
Conversions == {Ret(v) : v \in AdcVals} \cup {AdcFault}

\* the match of read: x if x < ZERO_CUTOFF => 0, x => x
cutoff_le(x) == IF x <= ZERO_CUTOFF THEN 0 ELSE x

cutoff(x) == IF x < ZERO_CUTOFF THEN 0 ELSE x

read(conv) == IF conv.ok THEN Ret(cutoff(conv.val)) ELSE Panic

\* the match of read_multi_sample: x if x < ZERO_CUTOFF => 0u32, x => x as u32
sample_term(x) == AsU32(cutoff(x))

\* the for loop of read_multi_sample over the conversion results convs[lo..hi]:
\* the sum it leaves, whether a conversion failed and whether an addition
\* overflowed.  The terms are not negative, so the additions of the loop
\* overflow exactly when those of the halves or their joining do, and the
\* wrapped sums agree.
RECURSIVE accumulate(_, _, _)
accumulate(convs, lo, hi) ==
    IF lo > hi THEN [failed |-> FALSE, ovf |-> FALSE, sum |-> <<0, 0>>]
    ELSE IF lo = hi
    THEN [failed |-> ~convs[lo].ok, ovf |-> FALSE,
          sum |-> IF convs[lo].ok THEN sample_term(convs[lo].val) ELSE <<0, 0>>]
    ELSE LET mid == (lo + hi) \div 2
             left == accumulate(convs, lo, mid)
             right == accumulate(convs, mid + 1, hi)
             added == AddU32(left.sum, right.sum)
         IN  [failed |-> left.failed \/ right.failed,
              ovf |-> left.ovf \/ right.ovf \/ added.ovf,
              sum |-> added.val]

\* fn read_multi_sample, as a function of the sample_size conversion results
read_multi_sample(checks, convs) ==
    LET total == accumulate(convs, 1, Len(convs))
        quot == DivU32(total.sum, FromInt(Len(convs)))
    IN  IF total.failed \/ (checks /\ total.ovf) \/ quot.zero THEN Panic
        ELSE Ret(AsU16(quot.val))

SampleOff ==
    /\ adc_range = {}
    /\ sm_fn = "off"
    /\ sample_size = 0
    /\ sm_pc = "off"
    /\ sm_i = 0
    /\ sum = <<0, 0>>
    /\ sm_raw = AdcFault
    /\ sm_eff = {}
    /\ sm_ret = Panic

SampleStart ==
    /\ sm_pc = "call"
    /\ sm_i = 0
    /\ sum = <<0, 0>>
    /\ sm_raw = AdcFault
    /\ sm_eff = {}
    /\ sm_ret = Panic

\* any conversion results, short runs
SampleInit ==
    /\ adc_range = Conversions
    /\ \/ sm_fn = "read" /\ sample_size = 0
       \/ sm_fn = "read_multi_sample" /\ sample_size \in 0 .. MaxSamples
    /\ SampleStart

\* a steady input at the top of the converter's range, one long run
SampleLongInit ==
    /\ adc_range \in {{Ret(v)} : v \in {MAX_ANALOG_VALUE, U16_MAX}}
    /\ \/ sm_fn = "read" /\ sample_size = 0
       \/ sm_fn = "read_multi_sample" /\ sample_size = LongRun
    /\ SampleStart

\* fn read
Read ==
    /\ sm_fn = "read"
    /\ sm_pc = "call"
    /\ \E conv \in adc_range :
          /\ sm_raw' = conv
          /\ sm_ret' = read(conv)
          /\ sm_eff' = IF conv.ok THEN {read(conv).val} ELSE {}
    /\ sm_pc' = "ret"
    /\ UNCHANGED <<overflow_checks, adc_range, sm_fn, sample_size, sm_i, sum>>
    /\ UNCHANGED notSample

\* fn read_multi_sample: let mut sum = 0u32
MultiSampleEnter ==
    /\ sm_fn = "read_multi_sample"
    /\ sm_pc = "call"
    /\ sm_pc' = "loop"
    /\ sum' = <<0, 0>>
    /\ sm_i' = 0
    /\ UNCHANGED <<overflow_checks, adc_range, sm_fn, sample_size, sm_raw,
                   sm_eff, sm_ret>>
    /\ UNCHANGED notSample

\* one iteration of for _ in 0..sample_size
MultiSampleStep ==
    /\ sm_pc = "loop"
    /\ sm_i < sample_size
    /\ \E conv \in adc_range :
          LET added == AddU32(sum, sample_term(conv.val))
          IN  /\ sm_raw' = conv
              /\ sm_i' = sm_i + 1
              /\ IF ~conv.ok
                 THEN /\ sm_pc' = "ret"
                      /\ sm_ret' = Panic
                      /\ UNCHANGED <<sum, sm_eff>>
                 ELSE IF added.ovf /\ overflow_checks
                 THEN /\ sm_pc' = "ret"
                      /\ sm_ret' = Panic
                      /\ sm_eff' = sm_eff \cup {cutoff(conv.val)}
                      /\ UNCHANGED sum
                 ELSE /\ sum' = added.val
                      /\ sm_eff' = sm_eff \cup {cutoff(conv.val)}
                      /\ UNCHANGED <<sm_pc, sm_ret>>
    /\ UNCHANGED <<overflow_checks, adc_range, sm_fn, sample_size>>
    /\ UNCHANGED notSample

\* (sum / sample_size) as u16
MultiSampleReturn ==
    /\ sm_pc = "loop"
    /\ sm_i = sample_size
    /\ sm_pc' = "ret"
    /\ LET quot == DivU32(sum, FromInt(sample_size))
       IN  sm_ret' = IF quot.zero THEN Panic ELSE Ret(AsU16(quot.val))
    /\ UNCHANGED <<overflow_checks, adc_range, sm_fn, sample_size, sm_i, sum,
                   sm_raw, sm_eff>>
    /\ UNCHANGED notSample

----------------------------------------------------------------------------
(* lib.rs: DisplayState.  The display is the SSD1306 behind it: a display- *)
(* on flag, the frame buffer that clear() and draw() write, and the frame  *)
(* that flush() sends to the device.  The I2C transfers are taken to       *)
(* complete: a failed one panics in unwrap().                              *)

Chan == 1 .. INPUT_COUNT

\* vol_bar_width in DisplayState::new
VOL_BAR_WIDTH == 80

Titles == {"Volume control"}

\* the cleared frame buffer
Blank == [title |-> <<>>, rows |-> <<>>]

NoVolumes == [i \in Chan |-> 0]

AbsDiff(a, b) == IF a >= b THEN a - b ELSE b - a

\* the test of set_volumes with a band of 2 in place of 1
moved_wide(vol, stored) == AbsDiff(vol, stored) > 2

\* the test of set_volumes with >= in place of >
moved_ge(vol, stored) == AbsDiff(vol, stored) >= 1

\* vol.abs_diff(self.volumes[idx]) > 1
moved(vol, stored) == AbsDiff(vol, stored) > 1

\* set_volumes with the store self.volumes[idx] = *vol left out
set_volumes_no_store(stored, new) ==
    [volumes |-> stored,
     status |-> IF \E i \in Chan : moved(new[i], stored[i]) THEN "Changed"
                                                            ELSE "NotChanged"]

\* fn set_volumes: the stored volumes and the status it returns
set_volumes(stored, new) ==
    [volumes |-> [i \in Chan |-> IF moved(new[i], stored[i]) THEN new[i]
                                                             ELSE stored[i]],
     status |-> IF \E i \in Chan : moved(new[i], stored[i]) THEN "Changed"
                                                            ELSE "NotChanged"]

\* the fill width of one bar in draw
fill_val(checks, p_val) == scale_to_range(checks, p_val, 0, 100, 0, VOL_BAR_WIDTH)

\* what draw leaves in the frame buffer: the title, and for each channel its
\* label (idx, p_val) and the width of its filled bar
frame(checks, t, vols) ==
    [title |-> t,
     rows |-> [i \in Chan |-> [idx |-> i - 1, p_val |-> vols[i],
                               fill |-> fill_val(checks, vols[i]).val]]]

DisplayOff ==
    /\ volumes = NoVolumes
    /\ ready_to_draw = FALSE
    /\ title = <<>>
    /\ display_on = FALSE
    /\ buffer = Blank
    /\ device_frame = Blank
    /\ ds_op = "off"
    /\ ds_arg = NoVolumes
    /\ ds_ret = "unit"
    /\ ready_called = FALSE
    /\ ds_repeat = FALSE

\* DisplayState::new on an initialized display
New ==
    /\ volumes = NoVolumes
    /\ ready_to_draw = FALSE
    /\ title = <<>>
    /\ display_on \in BOOLEAN
    /\ buffer = Blank
    /\ device_frame = Blank
    /\ ds_op = "new"
    /\ ds_arg = NoVolumes
    /\ ds_ret = "unit"
    /\ ready_called = FALSE
    /\ ds_repeat = FALSE

\* DisplayState::with_volumes
WithVolumes(vols) ==
    /\ volumes = vols
    /\ ready_to_draw = FALSE
    /\ title = <<>>
    /\ display_on \in BOOLEAN
    /\ buffer = Blank
    /\ device_frame = Blank
    /\ ds_op = "with_volumes"
    /\ ds_arg = NoVolumes
    /\ ds_ret = "unit"
    /\ ready_called = FALSE
    /\ ds_repeat = FALSE

Ready ==
    /\ ready_to_draw' = TRUE
    /\ ready_called' = TRUE
    /\ ds_op' = "ready"
    /\ ds_ret' = "unit"
    /\ UNCHANGED <<volumes, title, display_on, buffer, device_frame, ds_arg>>
    /\ ds_repeat' = FALSE
    /\ UNCHANGED notDisplay

SetTitle(t) ==
    /\ title' = <<t>>
    /\ ds_op' = "set_title"
    /\ ds_ret' = "unit"
    /\ UNCHANGED <<volumes, ready_to_draw, display_on, buffer, device_frame,
                   ds_arg, ready_called>>
    /\ ds_repeat' = FALSE
    /\ UNCHANGED notDisplay

DisableTitle ==
    /\ title' = <<>>
    /\ ds_op' = "disable_title"
    /\ ds_ret' = "unit"
    /\ UNCHANGED <<volumes, ready_to_draw, display_on, buffer, device_frame,
                   ds_arg, ready_called>>
    /\ ds_repeat' = FALSE
    /\ UNCHANGED notDisplay

SetVolumes(new) ==
    /\ volumes' = set_volumes(volumes, new).volumes
    /\ ds_ret' = set_volumes(volumes, new).status
    /\ ds_op' = "set_volumes"
    /\ ds_arg' = new
    /\ UNCHANGED <<ready_to_draw, title, display_on, buffer, device_frame,
                   ready_called>>
    /\ ds_repeat' = (ds_op = "set_volumes" /\ ds_arg = new)
    /\ UNCHANGED notDisplay

\* draw with the test of ready_to_draw left out
DrawNoGate ==
    /\ display_on' = TRUE
    /\ buffer' = frame(overflow_checks, title, volumes)
    /\ device_frame' = frame(overflow_checks, title, volumes)
    /\ ds_ret' = "Ok"
    /\ ds_op' = "draw"
    /\ UNCHANGED <<volumes, ready_to_draw, title, ds_arg, ready_called>>
    /\ ds_repeat' = FALSE
    /\ UNCHANGED notDisplay

\* fn draw: Err(()) when not ready; else turn_on, clear, the title, the rows,
\* flush, Ok(())
Draw ==
    /\ IF ~ready_to_draw
       THEN /\ ds_ret' = "Err"
            /\ UNCHANGED <<display_on, buffer, device_frame>>
       ELSE /\ display_on' = TRUE
            /\ buffer' = frame(overflow_checks, title, volumes)
            /\ device_frame' = frame(overflow_checks, title, volumes)
            /\ ds_ret' = IF \A i \in Chan : fill_val(overflow_checks, volumes[i]).ok
                         THEN "Ok" ELSE "Panic"
    /\ ds_op' = "draw"
    /\ UNCHANGED <<volumes, ready_to_draw, title, ds_arg, ready_called>>
    /\ ds_repeat' = FALSE
    /\ UNCHANGED notDisplay

TurnOff ==
    /\ display_on' = FALSE
    /\ ds_op' = "turn_off"
    /\ ds_ret' = "unit"
    /\ UNCHANGED <<volumes, ready_to_draw, title, buffer, device_frame, ds_arg,
                   ready_called>>
    /\ ds_repeat' = FALSE
    /\ UNCHANGED notDisplay

TurnOn ==
    /\ display_on' = TRUE
    /\ ds_op' = "turn_on"
    /\ ds_ret' = "unit"
    /\ UNCHANGED <<volumes, ready_to_draw, title, buffer, device_frame, ds_arg,
                   ready_called>>
    /\ ds_repeat' = FALSE
    /\ UNCHANGED notDisplay

\* the volumes given to set_volumes and with_volumes
Vols == 0 .. MaxVol

AllVolumes == [Chan -> Vols]

\* a few volumes: all zero, all MaxVol, a ramp, and values at and above 100
SomeVolumes ==
    {NoVolumes,
     [i \in Chan |-> MaxVol],
     [i \in Chan |-> i - 1],
     [i \in Chan |-> IF i = 1 THEN 100 ELSE U16_MAX]}

\* volumes with one value on the first k channels and another on the rest
StepVolumes ==
    {[i \in Chan |-> IF i <= k THEN a ELSE b] :
        a \in Vols, b \in Vols, k \in 1 .. INPUT_COUNT - 1}

SetVolumesAny == \E new \in StepVolumes : SetVolumes(new)

SetVolumesSome == \E new \in SomeVolumes : SetVolumes(new)

SetSomeTitle == \E t \in Titles : SetTitle(t)

----------------------------------------------------------------------------
(* main.rs: the RTIC application.  idle runs at priority 0; update_display *)
(* and send_to_serial are hardware tasks of priority 1, bound to the       *)
(* interrupts of timer0 and timer1.  A task starts when its interrupt is   *)
(* pending and the core runs below its priority; it then runs to its end.  *)
(* idle's lock of raw_input_values raises the core to the resource's       *)
(* ceiling, priority 1, for the closure.  A timer started with start()     *)
(* raises its interrupt once, when its alarm is reached.  The conversions  *)
(* and the display's transfers are taken to complete.                      *)

\* the conversion results of one call of read_multi_sample: the input steady
Steady(x) == [i \in 1 .. SAMPLE_SIZE |-> Ret(x)]

\* the input flickering between two neighbouring levels
Flicker(x) == [i \in 1 .. SAMPLE_SIZE |-> Ret(IF i % 2 = 0 THEN x ELSE x - 1)]

\* the runs of conversion results each channel's pin can give
SampleRuns ==
    <<{Steady(ZERO_CUTOFF - 1), Steady(U16_MAX)},
      {Steady(385), Flicker(ZERO_CUTOFF)},
      {Steady(MAX_ANALOG_VALUE)},
      {Steady(700)}>>

\* the readings idle can store: the initial zero and the result of
\* read_multi_sample on each run
Readings ==
    {0} \cup UNION {{read_multi_sample(checks, run).val :
                        checks \in BOOLEAN, run \in SampleRuns[i]} : i \in Chan}

\* scale_to_range(*val, 0, MAX_ANALOG_VALUE, 0, 100) on each of them, computed
\* once for the build
to_percent ==
    [checks \in BOOLEAN, val \in Readings |->
        scale_to_range(checks, val, 0, MAX_ANALOG_VALUE, 0, 100)]

\* scale_analog_input_to_1023(*val) on each of them
to_1023 ==
    [checks \in BOOLEAN, val \in Readings |->
        scale_analog_input_to_1023(checks, val)]

\* scale_to_range(*p_val, 0, 100, 0, vol_bar_width) on each percentage
to_bar ==
    [checks \in BOOLEAN,
     p_val \in {to_percent[c, v].val : c \in BOOLEAN, v \in Readings} \cup {0} |->
        scale_to_range(checks, p_val, 0, 100, 0, VOL_BAR_WIDTH)]

\* what update_display draws: the title and, for each channel, its label and
\* the width of its filled bar
app_frame(checks, pcts) ==
    [title |-> <<"Volume control">>,
     rows |-> [i \in Chan |->
                  [idx |-> i - 1, p_val |-> pcts[i],
                   fill |-> to_bar[checks, pcts[i]].val]]]

\* println!("{}|{}|{}|{}\r", values[0], values[1], values[2], values[3])
telemetry_line(vals) ==
    ToString(vals[1]) \o "|" \o ToString(vals[2]) \o "|" \o ToString(vals[3])
        \o "|" \o ToString(vals[4]) \o "\r" \o "\n"

AppOff ==
    /\ raw_input_values = NoVolumes
    /\ idle_pc = "off"
    /\ idle_idx = 1
    /\ new_val = 0
    /\ running = "off"
    /\ task_pc = "none"
    /\ percentages = NoVolumes
    /\ values = NoVolumes
    /\ serial_out = ""
    /\ timer0_armed = FALSE
    /\ timer0_int = FALSE
    /\ timer1_armed = FALSE
    /\ timer1_int = FALSE

\* the state init returns: both timers listening and started, the array zero
AppInit ==
    /\ raw_input_values = [i \in Chan |-> 0]
    /\ idle_pc = "read"
    /\ idle_idx = 1
    /\ new_val = 0
    /\ running = "idle"
    /\ task_pc = "none"
    /\ percentages = [i \in Chan |-> 0]
    /\ values = [i \in Chan |-> 0]
    /\ serial_out = ""
    /\ timer0_armed = TRUE
    /\ timer0_int = FALSE
    /\ timer1_armed = TRUE
    /\ timer1_int = FALSE

\* the display after display.init(): on, nothing drawn
AppDisplayInit ==
    /\ volumes = NoVolumes
    /\ ready_to_draw = FALSE
    /\ title = <<>>
    /\ display_on = TRUE
    /\ buffer = Blank
    /\ device_frame = Blank
    /\ ds_op = "off"
    /\ ds_arg = NoVolumes
    /\ ds_ret = "unit"
    /\ ready_called = FALSE
    /\ ds_repeat = FALSE

\* the task bound to each timer's interrupt: binds = TG0_T0_LEVEL for
\* update_display, binds = TG1_T0_LEVEL for send_to_serial
timer_task == [timer0 |-> "update_display", timer1 |-> "send_to_serial"]

\* whether the body of each task calls DisplayState::turn_off: none does, the
\* application draws on the Ssd1306 itself and never blanks it
calls_turn_off == [update_display |-> FALSE, send_to_serial |-> FALSE]

\* the timers counting down to their alarm
ArmedTimers ==
    {t \in DOMAIN timer_task :
        IF t = "timer0" THEN timer0_armed ELSE timer1_armed}

\* timer0 reaches its alarm
Timer0Expire ==
    /\ timer0_armed
    /\ timer0_armed' = FALSE
    /\ timer0_int' = TRUE
    /\ UNCHANGED <<raw_input_values, idle_pc, idle_idx, new_val, running,
                   task_pc, percentages, values, serial_out, timer1_armed,
                   timer1_int, buffer, device_frame>>
    /\ UNCHANGED notApp

\* timer1 reaches its alarm
Timer1Expire ==
    /\ timer1_armed
    /\ timer1_armed' = FALSE
    /\ timer1_int' = TRUE
    /\ UNCHANGED <<raw_input_values, idle_pc, idle_idx, new_val, running,
                   task_pc, percentages, values, serial_out, timer0_armed,
                   timer0_int, buffer, device_frame>>
    /\ UNCHANGED notApp

\* idle: let new_val = input.read_multi_sample(adc, 100)
IdleRead ==
    /\ running = "idle"
    /\ idle_pc = "read"
    /\ \E run \in SampleRuns[idle_idx] :
          LET got == read_multi_sample(overflow_checks, run)
          IN  IF got.ok
              THEN new_val' = got.val /\ idle_pc' = "lock" /\ running' = running
              ELSE new_val' = new_val /\ idle_pc' = "read" /\ running' = "panic"
    /\ UNCHANGED <<raw_input_values, idle_idx, task_pc, percentages, values,
                   serial_out, timer0_armed, timer0_int, timer1_armed,
                   timer1_int, buffer, device_frame>>
    /\ UNCHANGED notApp

\* idle: raw_input_values.lock( enters the critical section
IdleLock ==
    /\ running = "idle"
    /\ idle_pc = "lock"
    /\ idle_pc' = "write"
    /\ UNCHANGED <<raw_input_values, idle_idx, new_val, running, task_pc,
                   percentages, values, serial_out, timer0_armed, timer0_int,
                   timer1_armed, timer1_int, buffer, device_frame>>
    /\ UNCHANGED notApp

\* idle: |r| r[idx] = new_val, and the end of the critical section
IdleWrite ==
    /\ running = "idle"
    /\ idle_pc = "write"
    /\ raw_input_values' = [raw_input_values EXCEPT ![idle_idx] = new_val]
    /\ IF idle_idx < INPUT_COUNT
       THEN idle_idx' = idle_idx + 1 /\ idle_pc' = "read"
       ELSE idle_idx' = idle_idx /\ idle_pc' = "delay"
    /\ UNCHANGED <<new_val, running, task_pc, percentages, values, serial_out,
                   timer0_armed, timer0_int, timer1_armed, timer1_int, buffer,
                   device_frame>>
    /\ UNCHANGED notApp

\* idle: delay.delay_ms(50u32), then the next pass of the loop
IdleDelay ==
    /\ running = "idle"
    /\ idle_pc = "delay"
    /\ idle_pc' = "read"
    /\ idle_idx' = 1
    /\ UNCHANGED <<raw_input_values, new_val, running, task_pc, percentages,
                   values, serial_out, timer0_armed, timer0_int, timer1_armed,
                   timer1_int, buffer, device_frame>>
    /\ UNCHANGED notApp

\* a task of priority 1 may start: idle runs, outside its critical section
\* the same without the raised priority of idle's critical section
MayPreemptInLock == running = "idle"

MayPreempt == running = "idle" /\ idle_pc # "write"

\* the interrupt TG0_T0_LEVEL starts update_display
UpdateDisplayStart ==
    /\ timer0_int
    /\ MayPreempt
    /\ running' = "update_display"
    /\ task_pc' = "clear_interrupt"
    /\ UNCHANGED <<raw_input_values, idle_pc, idle_idx, new_val, percentages,
                   values, serial_out, timer0_armed, timer0_int, timer1_armed,
                   timer1_int, buffer, device_frame>>
    /\ UNCHANGED notApp

\* update_display without timer0.clear_interrupt()
UpdateDisplayNoClear ==
    /\ running = "update_display"
    /\ task_pc = "clear_interrupt"
    /\ percentages' = [i \in Chan |-> 0]
    /\ task_pc' = "lock"
    /\ UNCHANGED <<raw_input_values, idle_pc, idle_idx, new_val, running,
                   values, serial_out, timer0_armed, timer0_int, timer1_armed,
                   timer1_int, buffer, device_frame>>
    /\ UNCHANGED notApp

\* timer0.clear_interrupt(); let mut percentages = Default::default()
UpdateDisplayClear ==
    /\ running = "update_display"
    /\ task_pc = "clear_interrupt"
    /\ timer0_int' = FALSE
    /\ percentages' = [i \in Chan |-> 0]
    /\ task_pc' = "lock"
    /\ UNCHANGED <<raw_input_values, idle_pc, idle_idx, new_val, running,
                   values, serial_out, timer0_armed, timer1_armed, timer1_int,
                   buffer, device_frame>>
    /\ UNCHANGED notApp

\* the lock: percentages[idx] = scale_to_range(*val, 0, MAX_ANALOG_VALUE, 0, 100)
UpdateDisplayLock ==
    /\ running = "update_display"
    /\ task_pc = "lock"
    /\ LET scaled == [i \in Chan |->
                         to_percent[overflow_checks, raw_input_values[i]]]
       IN  IF \A i \in Chan : scaled[i].ok
           THEN /\ percentages' = [i \in Chan |-> scaled[i].val]
                /\ task_pc' = "draw"
                /\ running' = running
           ELSE /\ UNCHANGED <<percentages, task_pc>>
                /\ running' = "panic"
    /\ UNCHANGED <<raw_input_values, idle_pc, idle_idx, new_val, values,
                   serial_out, timer0_armed, timer0_int, timer1_armed,
                   timer1_int, buffer, device_frame>>
    /\ UNCHANGED notApp

\* display.clear, the title, and each channel's label, bar frame and bar
UpdateDisplayDraw ==
    /\ running = "update_display"
    /\ task_pc = "draw"
    /\ buffer' = app_frame(overflow_checks, percentages)
    /\ task_pc' = "flush"
    /\ UNCHANGED <<raw_input_values, idle_pc, idle_idx, new_val, running,
                   percentages, values, serial_out, timer0_armed, timer0_int,
                   timer1_armed, timer1_int, device_frame>>
    /\ UNCHANGED notApp

\* display.flush()
UpdateDisplayFlush ==
    /\ running = "update_display"
    /\ task_pc = "flush"
    /\ device_frame' = buffer
    /\ task_pc' = "start"
    /\ UNCHANGED <<raw_input_values, idle_pc, idle_idx, new_val, running,
                   percentages, values, serial_out, timer0_armed, timer0_int,
                   timer1_armed, timer1_int, buffer>>
    /\ UNCHANGED notApp

\* timer0.start(DISPLAY_UPDATE_PERIOD.millis()), and the task returns
UpdateDisplayRearm ==
    /\ running = "update_display"
    /\ task_pc = "start"
    /\ timer0_armed' = TRUE
    /\ running' = "idle"
    /\ task_pc' = "none"
    /\ percentages' = [i \in Chan |-> 0]
    /\ UNCHANGED <<raw_input_values, idle_pc, idle_idx, new_val, values,
                   serial_out, timer0_int, timer1_armed, timer1_int, buffer,
                   device_frame>>
    /\ UNCHANGED notApp

\* the interrupt TG1_T0_LEVEL starts send_to_serial
SendToSerialStart ==
    /\ timer1_int
    /\ MayPreempt
    /\ running' = "send_to_serial"
    /\ task_pc' = "clear_interrupt"
    /\ UNCHANGED <<raw_input_values, idle_pc, idle_idx, new_val, percentages,
                   values, serial_out, timer0_armed, timer0_int, timer1_armed,
                   timer1_int, buffer, device_frame>>
    /\ UNCHANGED notApp

\* cx.local.timer1.clear_interrupt(); let mut values = Default::default()
SendToSerialClear ==
    /\ running = "send_to_serial"
    /\ task_pc = "clear_interrupt"
    /\ timer1_int' = FALSE
    /\ values' = [i \in Chan |-> 0]
    /\ task_pc' = "lock"
    /\ UNCHANGED <<raw_input_values, idle_pc, idle_idx, new_val, running,
                   percentages, serial_out, timer0_armed, timer0_int,
                   timer1_armed, buffer, device_frame>>
    /\ UNCHANGED notApp

\* send_to_serial with the println! inside the closure of the lock
SendToSerialPrintInLock ==
    /\ running = "send_to_serial"
    /\ task_pc = "lock"
    /\ LET scaled == [i \in Chan |->
                         scale_analog_input_to_1023(overflow_checks,
                                                    raw_input_values[i])]
       IN  /\ values' = [i \in Chan |-> scaled[i].val]
           /\ serial_out' = telemetry_line(values')
           /\ task_pc' = "start"
    /\ UNCHANGED <<raw_input_values, idle_pc, idle_idx, new_val, running,
                   percentages, timer0_armed, timer0_int, timer1_armed,
                   timer1_int, buffer, device_frame>>
    /\ UNCHANGED notApp

\* the lock: values[idx] = scale_analog_input_to_1023(*val)
SendToSerialLock ==
    /\ running = "send_to_serial"
    /\ task_pc = "lock"
    /\ LET scaled == [i \in Chan |->
                         to_1023[overflow_checks, raw_input_values[i]]]
       IN  IF \A i \in Chan : scaled[i].ok
           THEN /\ values' = [i \in Chan |-> scaled[i].val]
                /\ task_pc' = "println"
                /\ running' = running
           ELSE /\ UNCHANGED <<values, task_pc>>
                /\ running' = "panic"
    /\ UNCHANGED <<raw_input_values, idle_pc, idle_idx, new_val, percentages,
                   serial_out, timer0_armed, timer0_int, timer1_armed,
                   timer1_int, buffer, device_frame>>
    /\ UNCHANGED notApp

\* println!
SendToSerialPrint ==
    /\ running = "send_to_serial"
    /\ task_pc = "println"
    /\ serial_out' = telemetry_line(values)
    /\ task_pc' = "start"
    /\ UNCHANGED <<raw_input_values, idle_pc, idle_idx, new_val, running,
                   percentages, values, timer0_armed, timer0_int, timer1_armed,
                   timer1_int, buffer, device_frame>>
    /\ UNCHANGED notApp

\* send_to_serial returning without cx.local.timer1.start
SendToSerialNoRearm ==
    /\ running = "send_to_serial"
    /\ task_pc = "start"
    /\ running' = "idle"
    /\ task_pc' = "none"
    /\ values' = [i \in Chan |-> 0]
    /\ serial_out' = ""
    /\ UNCHANGED <<raw_input_values, idle_pc, idle_idx, new_val, percentages,
                   timer0_armed, timer0_int, timer1_armed, timer1_int, buffer,
                   device_frame>>
    /\ UNCHANGED notApp

\* send_to_serial restarting timer0 in place of timer1
SendToSerialRearmTimer0 ==
    /\ running = "send_to_serial"
    /\ task_pc = "start"
    /\ timer0_armed' = TRUE
    /\ running' = "idle"
    /\ task_pc' = "none"
    /\ values' = [i \in Chan |-> 0]
    /\ serial_out' = ""
    /\ UNCHANGED <<raw_input_values, idle_pc, idle_idx, new_val, percentages,
                   timer1_armed, timer0_int, timer1_int, buffer, device_frame>>
    /\ UNCHANGED notApp

\* cx.local.timer1.start(SERIAL_UPDATE_PERIOD.millis()), and the task returns
SendToSerialRearm ==
    /\ running = "send_to_serial"
    /\ task_pc = "start"
    /\ timer1_armed' = TRUE
    /\ running' = "idle"
    /\ task_pc' = "none"
    /\ values' = [i \in Chan |-> 0]
    /\ serial_out' = ""
    /\ UNCHANGED <<raw_input_values, idle_pc, idle_idx, new_val, percentages,
                   timer0_armed, timer0_int, timer1_int, buffer, device_frame>>
    /\ UNCHANGED notApp

----------------------------------------------------------------------------
(* The specifications. *)

InitScale == overflow_checks \in BOOLEAN /\ ScaleInit /\ SampleOff /\ DisplayOff
    /\ AppOff

ScaleNext == ScaleCall

SpecScale == InitScale /\ [][ScaleNext]_vars

InitSample ==
    overflow_checks \in BOOLEAN /\ ScaleOff /\ SampleInit /\ DisplayOff
    /\ AppOff

SampleNext == Read \/ MultiSampleEnter \/ MultiSampleStep \/ MultiSampleReturn

SpecSample == InitSample /\ [][SampleNext]_vars

InitSampleLong ==
    overflow_checks \in BOOLEAN /\ ScaleOff /\ SampleLongInit /\ DisplayOff
    /\ AppOff

SpecSampleLong == InitSampleLong /\ [][SampleNext]_vars

\* set_volumes on its own, from any stored volumes in AllVolumes
InitVolumes ==
    /\ overflow_checks \in BOOLEAN /\ ScaleOff /\ SampleOff
    /\ \E vols \in AllVolumes : WithVolumes(vols)
    /\ display_on = TRUE
    /\ AppOff

VolumesNext == SetVolumesAny

SpecVolumes == InitVolumes /\ [][VolumesNext]_vars

\* every function of DisplayState, called in any order
InitDisplay ==
    /\ overflow_checks \in BOOLEAN /\ ScaleOff /\ SampleOff
    /\ (New \/ \E vols \in SomeVolumes : WithVolumes(vols))
    /\ AppOff

DisplayNext ==
    \/ Ready
    \/ SetSomeTitle
    \/ DisableTitle
    \/ SetVolumesSome
    \/ Draw
    \/ TurnOff
    \/ TurnOn

SpecDisplay == InitDisplay /\ [][DisplayNext]_vars

\* the application of main.rs
InitApp ==
    /\ overflow_checks \in BOOLEAN /\ ScaleOff /\ SampleOff
    /\ AppDisplayInit /\ AppInit

AppNext ==
    \/ Timer0Expire
    \/ Timer1Expire
    \/ IdleRead
    \/ IdleLock
    \/ IdleWrite
    \/ IdleDelay
    \/ UpdateDisplayStart
    \/ UpdateDisplayClear
    \/ UpdateDisplayLock
    \/ UpdateDisplayDraw
    \/ UpdateDisplayFlush
    \/ UpdateDisplayRearm
    \/ SendToSerialStart
    \/ SendToSerialClear
    \/ SendToSerialLock
    \/ SendToSerialPrint
    \/ SendToSerialRearm

SpecApp == InitApp /\ [][AppNext]_vars

\* what the core executes without being asked twice: the body of the task it
\* runs, and idle's critical section, during which no task can start
CoreStep ==
    \/ IdleWrite
    \/ UpdateDisplayClear
    \/ UpdateDisplayLock
    \/ UpdateDisplayDraw
    \/ UpdateDisplayFlush
    \/ UpdateDisplayRearm
    \/ SendToSerialClear
    \/ SendToSerialLock
    \/ SendToSerialPrint
    \/ SendToSerialRearm

\* the scheduling of the application: a started timer1 reaches its alarm; the
\* core keeps executing; timer1's pending interrupt is taken as soon as the
\* core runs below its priority, however often update_display and idle's
\* lock make it wait
AppFairness ==
    /\ WF_vars(Timer1Expire)
    /\ WF_vars(CoreStep)
    /\ SF_vars(SendToSerialStart)

SpecAppFair == InitApp /\ [][AppNext]_vars /\ AppFairness

----------------------------------------------------------------------------
(* Claims about scale_to_range (SpecScale). *)

ScalePre ==
    /\ sc_pc = "ret"
    /\ sc_args.old_max > sc_args.old_min
    /\ sc_args.new_max > sc_args.new_min

ScaleInRange ==
    /\ sc_ret.ok
    /\ sc_args.new_min <= sc_ret.val
    /\ sc_ret.val <= sc_args.new_max
    /\ (sc_args.value = sc_args.old_min => sc_ret.val = sc_args.new_min)
    /\ (sc_args.value = sc_args.old_max => sc_ret.val = sc_args.new_max)

\* C1 as stated: for every value <= old_max (old_max > old_min, new_max >
\* new_min) the result lies in [new_min, new_max], old_min maps to new_min
\* and old_max maps to new_max.
C1_AnyValueUpToOldMax ==
    (ScalePre /\ sc_args.value <= sc_args.old_max) => ScaleInRange

\* C1 as amended: for every value with old_min <= value <= old_max (old_max >
\* old_min, new_max > new_min) scale_to_range returns a result in
\* [new_min, new_max]; old_min maps to new_min and old_max to new_max; and
\* scale_analog_input_to_100 maps 0 to 0 and MAX_ANALOG_VALUE to 100.
C1_ScaleInRange ==
    /\ (ScalePre /\ sc_args.old_min <= sc_args.value
                 /\ sc_args.value <= sc_args.old_max) => ScaleInRange
    /\ scale_analog_input_to_100(overflow_checks, 0) = Ret(0)
    /\ scale_analog_input_to_100(overflow_checks, MAX_ANALOG_VALUE) = Ret(100)

\* a value strictly inside a range that starts above 0, scaled strictly
\* inside a range that starts above 0
C1_Witness ==
    /\ ScalePre
    /\ 0 < sc_args.old_min
    /\ sc_args.old_min < sc_args.value
    /\ sc_args.value < sc_args.old_max
    /\ 0 < sc_args.new_min
    /\ sc_ret.ok
    /\ sc_args.new_min < sc_ret.val
    /\ sc_ret.val < sc_args.new_max

\* C2: for every value > old_max the call returns what the call on old_max
\* returns (the input is clamped to old_max).
C2_ClampedAboveOldMax ==
    (sc_pc = "ret" /\ sc_args.value > sc_args.old_max) =>
        sc_ret = scale_to_range(overflow_checks, sc_args.old_max,
                                sc_args.old_min, sc_args.old_max,
                                sc_args.new_min, sc_args.new_max)

\* a value far above old_max, returned as new_max
C2_Witness ==
    /\ ScalePre
    /\ sc_args.value = U16_MAX
    /\ sc_args.old_max = MAX_ANALOG_VALUE
    /\ sc_args.new_min > 0
    /\ sc_ret = Ret(sc_args.new_max)

----------------------------------------------------------------------------
(* Claims about read and read_multi_sample (SpecSample, SpecSampleLong). *)

\* C6: a single read returns 0 when the raw converted value is below
\* ZERO_CUTOFF and the raw value unchanged otherwise; in read_multi_sample a
\* sample below ZERO_CUTOFF adds 0 to the sum.
C6_DeadBand ==
    [][/\ (sm_fn = "read" /\ sm_pc' = "ret" /\ sm_raw'.ok) =>
              sm_ret' = Ret(IF sm_raw'.val < ZERO_CUTOFF THEN 0 ELSE sm_raw'.val)
       /\ (sm_pc = "loop" /\ sm_i' = sm_i + 1 /\ sm_raw'.ok
           /\ sm_raw'.val < ZERO_CUTOFF) =>
              (sum' = sum /\ sm_pc' = "loop")]_vars

\* a sample just below the cutoff read after a sample at the top of the
\* range: the sum still holds the first sample alone
C6_Witness ==
    /\ sm_fn = "read_multi_sample"
    /\ sm_i = 2
    /\ sm_raw = Ret(ZERO_CUTOFF - 1)
    /\ sum = AsU32(MAX_ANALOG_VALUE)

\* C7: when every read of a call of read_multi_sample with sample_size >= 1
\* gave the same per-read value x, the call returns x.
C7_IdenticalReadsMean ==
    (/\ sm_fn = "read_multi_sample"
     /\ sm_pc = "ret"
     /\ sample_size >= 1
     /\ sm_i = sample_size
     /\ sm_raw.ok
     /\ Cardinality(sm_eff) = 1) => \E x \in sm_eff : sm_ret = Ret(x)

----------------------------------------------------------------------------
(* Claims about DisplayState (SpecVolumes, SpecDisplay). *)

\* C3: set_volumes(new) replaces the stored value of channel i by new[i]
\* exactly when |new[i] - stored[i]| > 1 and leaves every other channel as it
\* was; it returns Changed if and only if some channel was replaced.
C3_SetVolumesHysteresis ==
    [][ds_op' = "set_volumes" =>
        /\ \A i \in Chan :
              volumes'[i] = IF ds_arg'[i] - volumes[i] > 1
                               \/ volumes[i] - ds_arg'[i] > 1
                            THEN ds_arg'[i] ELSE volumes[i]
        /\ (ds_ret' = "Changed") <=>
              (\E i \in Chan : \/ ds_arg'[i] - volumes[i] > 1
                               \/ volumes[i] - ds_arg'[i] > 1)]_vars

\* a call that returned Changed and left a channel one away from its argument
C3_Witness ==
    /\ ds_op = "set_volumes"
    /\ ds_ret = "Changed"
    /\ \E i \in Chan : ds_arg[i] - volumes[i] = 1
    /\ \E i \in Chan : volumes[i] - ds_arg[i] = 1

\* C4: a call of set_volumes with the argument of the set_volumes just
\* before it returns NotChanged and leaves the stored volumes as they were.
C4_SecondCallNotChanged ==
    [][ds_repeat' => (ds_ret' = "NotChanged" /\ volumes' = volumes)]_vars

\* a repeated call, on stored volumes that differ from the argument
C4_Witness ==
    /\ ds_repeat
    /\ ds_ret = "NotChanged"
    /\ volumes # ds_arg

\* C5: before the first call of ready(), draw() returns Err and leaves the
\* display-on flag, the frame buffer, the device's frame and the stored
\* volumes as they were; once ready() has been called ready_to_draw stays
\* true and every draw() returns Ok, whatever else is called in between.
C5_ReadyGate ==
    [][/\ (ds_op' = "draw" /\ ~ready_called) =>
              /\ ds_ret' = "Err"
              /\ UNCHANGED <<display_on, buffer, device_frame, volumes>>
       /\ ready_called => (ready_to_draw /\ ready_to_draw')
       /\ (ds_op' = "draw" /\ ready_called) => ds_ret' = "Ok"]_vars

\* a draw refused before ready(), after a title and volumes were set and the
\* display was turned off
C5_Witness ==
    /\ ds_op = "draw"
    /\ ds_ret = "Err"
    /\ ~ready_called
    /\ title # <<>>
    /\ volumes # NoVolumes
    /\ ~display_on
    /\ buffer = Blank
    /\ device_frame = Blank

----------------------------------------------------------------------------
\* send_to_serial has printed its line and has not returned yet
LineEmitted == running = "send_to_serial" /\ task_pc = "start"

\* the integer-truncated scaling of each channel's stored reading from
\* [0, MAX_ANALOG_VALUE] to [0, 1023], readings above the maximum counted as it
TruncatedFields ==
    [i \in Chan |->
        (Min(raw_input_values[i], MAX_ANALOG_VALUE) * 1023) \div MAX_ANALOG_VALUE]

\* C8, as stated: with the shared array holding [0, 385, 770, 700] the
\* telemetry task emits the line 0|511|1023|933 followed by CR LF.
C8_LineWith933 ==
    (LineEmitted /\ raw_input_values = <<0, 385, MAX_ANALOG_VALUE, 700>>)
        => serial_out = "0|511|1023|933\r\n"

\* C8, amended: with the shared array holding [0, 385, 770, 700] the telemetry
\* task emits the line 0|511|1023|930 followed by CR LF, each field being the
\* integer-truncated scaling of its channel's reading to [0, 1023].
C8_LineWith930 ==
    (LineEmitted /\ raw_input_values = <<0, 385, MAX_ANALOG_VALUE, 700>>)
        => /\ serial_out = "0|511|1023|930\r\n"
           /\ \A i \in Chan : values[i] = TruncatedFields[i]

C8_Witness ==
    /\ LineEmitted
    /\ raw_input_values = <<0, 385, MAX_ANALOG_VALUE, 700>>
    /\ serial_out = "0|511|1023|930\r\n"

\* C9: in every reachable state of the application, an emitted telemetry
\* line carries exactly INPUT_COUNT fields, in channel order and separated by
\* pipes, closed by CR LF, every field in [0, 1023]; and every percentage the
\* display refresh computes is in [0, 100].
C9_FieldsAndPercentagesInRange ==
    /\ LineEmitted =>
          /\ DOMAIN values = 1 .. INPUT_COUNT
          /\ \A i \in Chan : values[i] \in 0 .. 1023
          /\ values = TruncatedFields
          /\ serial_out = ToString(values[1]) \o "|" \o ToString(values[2])
                 \o "|" \o ToString(values[3]) \o "|" \o ToString(values[4])
                 \o "\r\n"
    /\ \A i \in Chan : percentages[i] \in 0 .. 100
    /\ running # "panic"

C9_Witness ==
    /\ LineEmitted
    /\ raw_input_values[1] = U16_MAX
    /\ serial_out = "1023|511|1023|930\r\n"
    /\ timer0_int

----------------------------------------------------------------------------
\* C10: after a display-refresh task has run, the auto-off timer, the timer
\* whose expiry runs the task that calls turn_off, is armed; and the display
\* is turned off only by that task: a step that blanks the display is a step
\* of the task bound to the auto-off timer.
C10_AutoOffArmedAfterRefresh ==
    [][/\ UpdateDisplayRearm =>
             \E t \in ArmedTimers' : calls_turn_off[timer_task[t]]
       /\ (display_on /\ ~display_on') =>
             \E t \in DOMAIN timer_task :
                 /\ calls_turn_off[timer_task[t]]
                 /\ running' = timer_task[t]]_vars

----------------------------------------------------------------------------
----------------------------------------------------------------------------
\* the entries a task computed under its lock are those of the array as it is
SnapshotOf(computed, new_max) ==
    \A i \in Chan :
        computed[i] = (Min(raw_input_values[i], MAX_ANALOG_VALUE) * new_max)
                          \div MAX_ANALOG_VALUE

\* C12: at most one of idle, update_display and send_to_serial is inside a
\* critical section on raw_input_values: no task runs while idle's write is in
\* progress, what a task read under its lock is one snapshot of all four
\* entries, and only idle's write changes the array, one entry at a time.
C12_ArrayMutualExclusion ==
    [][/\ idle_pc' = "write" => running' = "idle"
       /\ (running' = "update_display" /\ task_pc' \in {"draw", "flush", "start"})
             => SnapshotOf(percentages, 100)'
       /\ (running' = "send_to_serial" /\ task_pc' \in {"println", "start"})
             => SnapshotOf(values, 1023)'
       /\ raw_input_values' # raw_input_values
             => /\ running = "idle" /\ idle_pc = "write"
                /\ \A i \in Chan \ {idle_idx} :
                      raw_input_values'[i] = raw_input_values[i]]_vars

\* update_display reads the array between two writes of one pass of idle:
\* idle has computed channel 3's reading and was about to lock
C12_Witness ==
    /\ running = "update_display"
    /\ task_pc = "draw"
    /\ idle_pc = "lock"
    /\ idle_idx = 3
    /\ raw_input_values = <<U16_MAX, 385, 0, 0>>
    /\ percentages = <<100, 50, 0, 0>>

----------------------------------------------------------------------------
\* C13: every reading read_multi_sample produces for idle, and so every entry
\* of raw_input_values in every reachable state, lies in
\* [0, MAX_ANALOG_VALUE], whatever 16-bit values the converter returns.
C13_ReadingsWithinMax ==
    /\ idle_pc \in {"lock", "write"} => new_val \in 0 .. MAX_ANALOG_VALUE
    /\ \A i \in Chan : raw_input_values[i] \in 0 .. MAX_ANALOG_VALUE

\* C14: values below ZERO_CUTOFF are coerced to 0 before any further use:
\* in every reachable state each entry of raw_input_values is 0 or at least
\* ZERO_CUTOFF.
C14_EntriesZeroOrAboveCutoff ==
    \A i \in Chan :
        raw_input_values[i] = 0 \/ raw_input_values[i] >= ZERO_CUTOFF

----------------------------------------------------------------------------
\* C15: the 32-bit accumulator of read_multi_sample never overflows: whatever
\* the sample count and the samples, no addition of the loop takes sum past
\* 2^32 - 1, and the quotient the call returns fits in 16 bits.
C15_AccumulatorNeverOverflows ==
    /\ (sm_pc = "loop" /\ sm_i < sample_size) =>
          \A conv \in adc_range :
              conv.ok => ~AddU32(sum, sample_term(conv.val)).ovf
    /\ (sm_pc = "loop" /\ sm_i = sample_size /\ sample_size > 0) =>
          DivU32(sum, FromInt(sample_size)).val[1] = 0

----------------------------------------------------------------------------
\* C16: the lock of raw_input_values, the only lock there is, is never held
\* across a blocking wait.  A step taken while it is held (the closure of
\* idle, of update_display or of send_to_serial) performs no conversion, no
\* delay, no drawing, no display transfer and no serial output; and idle has
\* its reading in hand before it locks.
C16_NoBlockingUnderLock ==
    [][(idle_pc = "write" \/ UpdateDisplayLock \/ SendToSerialLock)
          => /\ new_val' = new_val
             /\ buffer' = buffer
             /\ device_frame' = device_frame
             /\ serial_out' = serial_out
             /\ ~IdleRead
             /\ ~IdleDelay]_vars

\* idle holds the lock while both timers' interrupts wait for its release
C16_Witness ==
    /\ idle_pc = "write"
    /\ idle_idx = 4
    /\ timer0_int
    /\ timer1_int

----------------------------------------------------------------------------
\* C17: each timer is owned by one task.  timer0's pending flag is cleared
\* and timer0 is restarted only by update_display, timer1's only by
\* send_to_serial; a run of either task clears its own timer's flag in its
\* first step and restarts that timer once, in its last step.
C17_TimerOwnership ==
    [][/\ (timer0_int /\ ~timer0_int')
             => (running = "update_display" /\ task_pc = "clear_interrupt")
       /\ (~timer0_armed /\ timer0_armed')
             => (running = "update_display" /\ task_pc = "start")
       /\ (timer1_int /\ ~timer1_int')
             => (running = "send_to_serial" /\ task_pc = "clear_interrupt")
       /\ (~timer1_armed /\ timer1_armed')
             => (running = "send_to_serial" /\ task_pc = "start")
       /\ (running = "idle" /\ running' # "idle")
             => task_pc' = "clear_interrupt"
       /\ (task_pc = "clear_interrupt" /\ task_pc' # task_pc)
             => IF running = "update_display"
                THEN timer0_int /\ ~timer0_int'
                ELSE timer1_int /\ ~timer1_int'
       /\ (running # "idle" /\ running' = "idle")
             => /\ task_pc = "start"
                /\ IF running = "update_display"
                   THEN ~timer0_armed /\ timer0_armed'
                   ELSE ~timer1_armed /\ timer1_armed'
       /\ (task_pc = "start" /\ task_pc' # task_pc) => running' = "idle"]_vars

\* send_to_serial is about to restart timer1 while timer0 has expired again
C17_Witness ==
    /\ running = "send_to_serial"
    /\ task_pc = "start"
    /\ ~timer1_armed
    /\ ~timer1_int
    /\ timer0_int

----------------------------------------------------------------------------
\* C18: under the application's scheduling, with conversions and display
\* transfers completing, every expiry of timer1 is followed by an emitted
\* telemetry line and then by the restart of timer1; the line is printed by
\* the run that consumed the expiry, before the restart, so once per expiry;
\* and lines are emitted infinitely often.
C18_TelemetryLive ==
    /\ timer1_int ~> LineEmitted
    /\ LineEmitted ~> (timer1_armed /\ running = "idle")
    /\ []<>LineEmitted
    /\ [][SendToSerialPrint => (~timer1_int /\ ~timer1_armed)]_vars

\* a line is out while the refresh is pending again and idle sits in its delay
C18_Witness ==
    /\ LineEmitted
    /\ serial_out = "1023|22|1023|930\r\n"
    /\ idle_pc = "delay"
    /\ timer0_int

----------------------------------------------------------------------------
\* C19: a call of scale_to_range that violates old_max > old_min or
\* new_max > new_min faults and returns no value.
C19_PreconditionViolationFaults ==
    (/\ sc_pc = "ret"
     /\ \/ sc_args.old_max <= sc_args.old_min
        \/ sc_args.new_max <= sc_args.new_min) => ~sc_ret.ok

----------------------------------------------------------------------------
\* C20: after any sequence of set_volumes calls, from any stored volumes,
\* each channel's stored value is within 1 of the value passed for that
\* channel in the latest call.
C20_StoredWithinOneOfLatest ==
    ds_op = "set_volumes" =>
        \A i \in Chan : /\ volumes[i] - ds_arg[i] <= 1
                        /\ ds_arg[i] - volumes[i] <= 1

\* a call that moved one channel to its argument and left another lagging by 1
C20_Witness ==
    /\ ds_op = "set_volumes"
    /\ ds_ret = "Changed"
    /\ ~ds_repeat
    /\ volumes[1] = ds_arg[1]
    /\ volumes[1] = MaxVol
    /\ ds_arg[INPUT_COUNT] = 1
    /\ volumes[INPUT_COUNT] = 0

============================================================================
